---- MODULE Spec2Model ----
(***************************************************************************)
(* Advisor-tree viewer (src/app.js): the hierarchy resolver                *)
(* (getPreferredParent, getClusterId), the highlight state manager         *)
(* (lineage and hover overlays) and the camera controller                  *)
(* (focusGraphNode, getGraphBounds, focusGraphBounds).                     *)
(*                                                                         *)
(* Node ids are JavaScript strings.  They are written here as TLA+ strings *)
(* and compared through their UTF-16 code units (CodeUnits), the way the   *)
(* JavaScript operator < compares two strings.  Every id is a non-empty    *)
(* string that does not contain "|".                                       *)
(***************************************************************************)
EXTENDS Integers, Sequences, FiniteSets, TLC

VARIABLES
  root,             \* state.data.root
  nodes,            \* state.nodes: sequence of [id, depth]
  edges,            \* state.edges: sequence of [from, to]
  stats,            \* total_descendants and direct_advisee_count of the nodes: id -> record
  surface,          \* the page: is there a #network container, and an svg.graph-canvas in it
  initDone,         \* init has made its call of initGraph (351-356)
  errorPanel,       \* showGraphError has put the graph error panel into the container
  resizeObserved,   \* the ResizeObserver of initGraph observes the container
  selectedNodeId,   \* state.selectedNodeId
  graphReady,       \* graphState.svg and graphState.zoom are set (initGraph ran)
  parentByChild,    \* graphState.parentByChild: id -> sequence of parent ids
  childrenByParent, \* graphState.childrenByParent: id -> sequence of child ids
  depthById,        \* graphState.depthById: id -> depth, NoDepth when absent
  clusterCache,     \* clusterCache of initGraph: id -> cluster id, NULL when absent
  clusterId,        \* nodesById.get(id).clusterId, NULL when id is no node
  maxDepth,         \* graphState.maxDepth
  lineageNodes,     \* graphState.lineageNodes
  lineageEdges,     \* graphState.lineageEdges (set of edge keys)
  hoveredId,        \* graphState.hoveredId
  nodeClasses,      \* CSS classes of the node elements: id -> set of class names
  linkClasses,      \* CSS classes of the link elements: link index -> set of class names
  containerSize,    \* size of the #network container element, as the browser reports it
  size,             \* graphState.size
  pos,              \* (x, y) of the simulation nodes: id -> [finite, x, y]
  currentTransform, \* graphState.currentTransform: [k, x, y], rationals
  zoomTarget,       \* the transform last handed to graphState.zoom.transform
  transitionActive, \* a transition started by zoom.transform is in flight
  initialFocusDone,      \* graphState.initialFocusDone
  initialFocusScheduled, \* graphState.initialFocusScheduled
  rafQueue,         \* callbacks handed to window.requestAnimationFrame, not yet run
  focusBoundsResult, \* what the last call of focusGraphBounds returned
  initialFocusRuns, \* how many times attemptInitialFocus has placed the camera (323-328)
  initSize,         \* width and height of initGraph, as its ResizeObserver callback sees them
  pin,              \* (fx, fy) of the simulation nodes: id -> [pinned, finite, x, y]
  dragging,         \* the nodes with a drag gesture in progress
  directAdvisees,   \* graphState.directAdvisees: sequence of ids
  clusterCenters    \* graphState.clusterCenters: id -> [set, cx, cy, radius, turn]

dataVars == <<root, nodes, edges, stats>>
surfaceVars == <<surface, initDone, errorPanel, resizeObserved>>
hierarchyVars == <<parentByChild, childrenByParent, depthById, clusterCache, clusterId, maxDepth>>
highlightVars == <<lineageNodes, lineageEdges, hoveredId, nodeClasses, linkClasses>>
cameraVars == <<currentTransform, zoomTarget, transitionActive, initialFocusDone,
                initialFocusScheduled, rafQueue, focusBoundsResult, initialFocusRuns>>
layoutVars == <<containerSize, size, pos, initSize>>
pinVars == <<pin, dragging>>
anchorVars == <<directAdvisees, clusterCenters>>
vars == <<dataVars, surfaceVars, selectedNodeId, graphReady, hierarchyVars, highlightVars,
          layoutVars, cameraVars, pinVars, anchorVars>>

(***************************************************************************)
(* Bounds of the input family.                                             *)
(***************************************************************************)
MaxParents == 2
MaxDepthVal == 2
MaxRaf == 2

NULL == "null"
NoDepth == 0 - 1
POSITIVE_INFINITY == MaxDepthVal + 1000

RootId == "R"
Ids == {"R", "A", "B", "C"}
NonRootIds == Ids \ {RootId}

CodeUnits(s) ==
  CASE s = "R" -> <<82>>
    [] s = "A" -> <<65>>
    [] s = "B" -> <<66>>
    [] s = "C" -> <<67>>

\* a < b for two JavaScript strings given by their code units
RECURSIVE UnitsLess(_, _)
UnitsLess(a, b) ==
  IF b = <<>> THEN FALSE
  ELSE IF a = <<>> THEN TRUE
  ELSE IF Head(a) # Head(b) THEN Head(a) < Head(b)
  ELSE UnitsLess(Tail(a), Tail(b))

StrLess(a, b) == UnitsLess(CodeUnits(a), CodeUnits(b))

edgeKey(sourceId, targetId) == CodeUnits(sourceId) \o <<124>> \o CodeUnits(targetId)

(***************************************************************************)
(* Sequence helpers.                                                       *)
(***************************************************************************)
Range(s) == {s[i] : i \in 1..Len(s)}

RECURSIVE Concat(_)
Concat(ss) == IF ss = <<>> THEN <<>> ELSE Head(ss) \o Concat(Tail(ss))

SeqsUpTo(S, n) == UNION {[1..k -> S] : k \in 0..n}

Injective(s) == \A i, j \in 1..Len(s) : i # j => s[i] # s[j]

(***************************************************************************)
(* getPreferredParent (src/app.js 130-146).                                *)
(***************************************************************************)
DepthOrInf(depthMap, id) ==
  IF depthMap[id] = NoDepth THEN POSITIVE_INFINITY ELSE depthMap[id]

\* the callback of parents.reduce: ids are non-empty strings, so !candidate is false
PreferStepDeeper(depthMap, currentBest, candidate) ==
  IF currentBest = NULL THEN candidate
  ELSE LET candidateDepth == DepthOrInf(depthMap, candidate)
           bestDepth == DepthOrInf(depthMap, currentBest)
       IN IF candidateDepth > bestDepth THEN candidate
          ELSE IF candidateDepth = bestDepth
               THEN (IF StrLess(candidate, currentBest) THEN candidate ELSE currentBest)
               ELSE currentBest

PreferStepTieLarger(depthMap, currentBest, candidate) ==
  IF currentBest = NULL THEN candidate
  ELSE LET candidateDepth == DepthOrInf(depthMap, candidate)
           bestDepth == DepthOrInf(depthMap, currentBest)
       IN IF candidateDepth < bestDepth THEN candidate
          ELSE IF candidateDepth = bestDepth
               THEN (IF StrLess(candidate, currentBest) THEN currentBest ELSE candidate)
               ELSE currentBest

PreferStep(depthMap, currentBest, candidate) ==
  IF currentBest = NULL THEN candidate
  ELSE LET candidateDepth == DepthOrInf(depthMap, candidate)
           bestDepth == DepthOrInf(depthMap, currentBest)
       IN IF candidateDepth < bestDepth THEN candidate
          ELSE IF candidateDepth = bestDepth
               THEN (IF StrLess(candidate, currentBest) THEN candidate ELSE currentBest)
               ELSE currentBest

RECURSIVE ReduceParents(_, _, _)
ReduceParents(depthMap, parents, currentBest) ==
  IF parents = <<>> THEN currentBest
  ELSE ReduceParents(depthMap, Tail(parents), PreferStep(depthMap, currentBest, Head(parents)))

PreferredParentIn(parentMap, depthMap, nodeId) ==
  LET parents == parentMap[nodeId]
  IN IF parents = <<>> THEN NULL
     ELSE LET best == ReduceParents(depthMap, parents, NULL)
          IN IF best = NULL THEN parents[1] ELSE best

getPreferredParent(nodeId) == PreferredParentIn(parentByChild, depthById, nodeId)

(***************************************************************************)
(* initGraph: adjacency (523-537) and getClusterId (539-587).              *)
(***************************************************************************)
BuildDepthById(ns) ==
  [id \in Ids |-> IF \E i \in 1..Len(ns) : ns[i].id = id
                  THEN ns[CHOOSE i \in 1..Len(ns) :
                            ns[i].id = id /\ \A j \in (i+1)..Len(ns) : ns[j].id # id].depth
                  ELSE NoDepth]

RECURSIVE ParentsOf(_, _)
ParentsOf(es, id) ==
  IF es = <<>> THEN <<>>
  ELSE (IF Head(es).to = id THEN <<Head(es).from>> ELSE <<>>) \o ParentsOf(Tail(es), id)

RECURSIVE ChildrenOf(_, _)
ChildrenOf(es, id) ==
  IF es = <<>> THEN <<>>
  ELSE (IF Head(es).from = id THEN <<Head(es).to>> ELSE <<>>) \o ChildrenOf(Tail(es), id)

BuildParentByChild(es) == [id \in Ids |-> ParentsOf(es, id)]
BuildChildrenByParent(es) == [id \in Ids |-> ChildrenOf(es, id)]

\* parents.find(parent => depth(parent) < currentDepth) ?? parents[0]
NextParent(depthMap, parents, currentDepth) ==
  IF \E i \in 1..Len(parents) : DepthOrInf(depthMap, parents[i]) < currentDepth
  THEN parents[CHOOSE i \in 1..Len(parents) :
                 /\ DepthOrInf(depthMap, parents[i]) < currentDepth
                 /\ \A j \in 1..(i-1) : ~(DepthOrInf(depthMap, parents[j]) < currentDepth)]
  ELSE parents[1]

\* the candidate chosen when the walk meets the root
CandidateAtRootStart(nodeId, current) == nodeId

CandidateAtRoot(nodeId, current) == current

\* a walk that keeps the node it stands on when it meets a visited node again
CandidateOnRevisitCurrent(rootId, current) == current

\* the candidate chosen when the next parent was visited before (565-568)
CandidateOnRevisit(rootId, current) == rootId

\* the while (true) loop of getClusterId: [candidate, visited] at the break
RECURSIVE ClusterWalk(_, _, _, _, _, _)
ClusterWalk(parentMap, depthMap, rootId, nodeId, current, visited) ==
  LET parents == parentMap[current]
  IN IF parents = <<>> THEN [candidate |-> rootId, visited |-> visited]
     ELSE LET nextParent == NextParent(depthMap, parents, DepthOrInf(depthMap, current))
          IN IF nextParent \in visited
             THEN [candidate |-> CandidateOnRevisit(rootId, current), visited |-> visited]
             ELSE IF nextParent = rootId
                  THEN [candidate |-> CandidateAtRoot(nodeId, current), visited |-> visited]
                  ELSE ClusterWalk(parentMap, depthMap, rootId, nodeId, nextParent,
                                   visited \cup {nextParent})

\* one call getClusterId(nodeId) on the cache: the returned id and the cache it leaves
getClusterId(parentMap, depthMap, rootId, cache, nodeId) ==
  IF cache[nodeId] # NULL THEN [result |-> cache[nodeId], cache |-> cache]
  ELSE IF nodeId = rootId
       THEN [result |-> rootId, cache |-> [cache EXCEPT ![nodeId] = rootId]]
       ELSE LET walk == ClusterWalk(parentMap, depthMap, rootId, nodeId, nodeId, {nodeId})
                resolved == walk.candidate
                filled == [id \in Ids |->
                             IF id \in walk.visited /\ cache[id] = NULL
                             THEN (IF id = rootId THEN rootId ELSE resolved)
                             ELSE cache[id]]
            IN [result |-> resolved, cache |-> [filled EXCEPT ![nodeId] = resolved]]

\* state.nodes.map(node => ({...node, clusterId: getClusterId(node.id)})) over the
\* first k nodes: the cache it leaves and the clusterId given to each node
RECURSIVE ResolveClusters(_, _, _, _, _)
ResolveClusters(parentMap, depthMap, rootId, ns, k) ==
  IF k = 0
  THEN [cache |-> [id \in Ids |-> IF id = rootId THEN rootId ELSE NULL],
        ids |-> [id \in Ids |-> NULL]]
  ELSE LET before == ResolveClusters(parentMap, depthMap, rootId, ns, k - 1)
           call == getClusterId(parentMap, depthMap, rootId, before.cache, ns[k].id)
       IN [cache |-> call.cache, ids |-> [before.ids EXCEPT ![ns[k].id] = call.result]]

NodeIds(ns) == {ns[i].id : i \in 1..Len(ns)}

MaxOf(S) == IF S = {} THEN 0 ELSE CHOOSE m \in S : \A x \in S : x <= m

(***************************************************************************)
(* The highlight state manager.                                            *)
(***************************************************************************)
LineageClassNames == {"lineage-active", "lineage-muted"}
HoverClassNames == {"hovered", "hover-muted"}

SetClass(classes, name, on) == IF on THEN classes \cup {name} ELSE classes \ {name}

LinkIndices == 1..Len(edges)
LinkKey(i) == edgeKey(edges[i].from, edges[i].to)

\* shouldDim of applyLineageClasses
ShouldDimAlways(lnodes) == Cardinality(lnodes) > 0

ShouldDim(lnodes) == Cardinality(lnodes) > 1

\* applyLineageClasses (148-170) on the given lineage sets
LineageNodeClasses(classes, lnodes) ==
  LET hasLineage == Cardinality(lnodes) > 0
      shouldDim == ShouldDim(lnodes)
  IN [id \in DOMAIN classes |->
        SetClass(SetClass(classes[id], "lineage-active", hasLineage /\ id \in lnodes),
                 "lineage-muted", shouldDim /\ id \notin lnodes)]

LineageLinkClasses(classes, lnodes, ledges) ==
  LET hasLineage == Cardinality(lnodes) > 0
      shouldDim == ShouldDim(lnodes)
  IN [i \in DOMAIN classes |->
        SetClass(SetClass(classes[i], "lineage-active", hasLineage /\ LinkKey(i) \in ledges),
                 "lineage-muted", shouldDim /\ LinkKey(i) \notin ledges)]

\* the while loop of updateLineageHighlight (178-186): [nodes, edges] collected
RECURSIVE LineageWalk(_, _, _, _, _, _, _)
LineageWalk(parentMap, depthMap, rootId, current, seen, lnodes, ledges) ==
  IF current \in seen THEN [nodes |-> lnodes, edges |-> ledges]
  ELSE LET lnodes1 == lnodes \cup {current}
       IN IF current = rootId THEN [nodes |-> lnodes1, edges |-> ledges]
          ELSE LET parent == PreferredParentIn(parentMap, depthMap, current)
               IN IF parent = NULL THEN [nodes |-> lnodes1, edges |-> ledges]
                  ELSE LineageWalk(parentMap, depthMap, rootId, parent, seen \cup {current},
                                   lnodes1, ledges \cup {edgeKey(parent, current)})

\* lineageNodes.add(state.data.root) after the loop (187)
WithoutRoot(walkNodes, rootId) == walkNodes

WithRoot(walkNodes, rootId) == walkNodes \cup {rootId}

\* the sets updateLineageHighlight(nodeId) builds for a non-empty nodeId, dropping
\* nothing of the sets it replaces
updateLineageHighlightKeep(prevNodes, prevEdges, parentMap, depthMap, rootId, nodeId) ==
  LET walk == LineageWalk(parentMap, depthMap, rootId, nodeId, {}, {}, {})
  IN [nodes |-> prevNodes \cup WithRoot(walk.nodes, rootId), edges |-> prevEdges \cup walk.edges]

\* the sets updateLineageHighlight(nodeId) (172-190) stores for a non-empty nodeId,
\* in place of the sets prevNodes, prevEdges
updateLineageHighlight(prevNodes, prevEdges, parentMap, depthMap, rootId, nodeId) ==
  LET walk == LineageWalk(parentMap, depthMap, rootId, nodeId, {}, {}, {})
  IN [nodes |-> WithRoot(walk.nodes, rootId), edges |-> walk.edges]

\* highlightGraphSelection (239-254)
SelectedNodeClasses(classes, nodeId) ==
  [id \in DOMAIN classes |-> SetClass(classes[id], "selected", id = nodeId)]

SelectedLinkClasses(classes, nodeId) ==
  [i \in DOMAIN classes |->
     SetClass(classes[i], "selected", edges[i].from = nodeId \/ edges[i].to = nodeId)]

\* relatedNodes / relatedEdges of applyHoverHighlight (201-215)
HoverRelatedAllParents(nodeId) ==
  LET children == Range(childrenByParent[nodeId])
      parents == Range(parentByChild[nodeId])
  IN [nodes |-> {nodeId} \cup parents \cup children,
      edges |-> {edgeKey(p, nodeId) : p \in parents}
                \cup {edgeKey(nodeId, child) : child \in children}]

HoverRelated(nodeId) ==
  LET parent == getPreferredParent(nodeId)
      children == Range(childrenByParent[nodeId])
  IN [nodes |-> {nodeId} \cup (IF parent = NULL THEN {} ELSE {parent}) \cup children,
      edges |-> (IF parent = NULL THEN {} ELSE {edgeKey(parent, nodeId)})
                \cup {edgeKey(nodeId, child) : child \in children}]

\* the node classes of applyHoverHighlight written with attr("class") instead of classed
HoverNodeClassesReset(classes, nodeId) ==
  LET hasHover == nodeId # NULL
      related == IF hasHover THEN HoverRelated(nodeId).nodes ELSE {}
  IN [id \in DOMAIN classes |->
        SetClass(SetClass({}, "hovered", hasHover /\ id \in related),
                 "hover-muted", hasHover /\ id \notin related)]

\* the node classes applyHoverHighlight (216-221) leaves
HoverNodeClasses(classes, nodeId) ==
  LET hasHover == nodeId # NULL
      related == IF hasHover THEN HoverRelated(nodeId).nodes ELSE {}
  IN [id \in DOMAIN classes |->
        SetClass(SetClass(classes[id], "hovered", hasHover /\ id \in related),
                 "hover-muted", hasHover /\ id \notin related)]

\* the link classes applyHoverHighlight (222-236) leaves
HoverLinkClasses(classes, nodeId) ==
  LET hasHover == nodeId # NULL
      related == IF hasHover THEN HoverRelated(nodeId).edges ELSE {}
  IN [i \in DOMAIN classes |->
        SetClass(SetClass(classes[i], "hovered", hasHover /\ LinkKey(i) \in related),
                 "hover-muted", hasHover /\ LinkKey(i) \notin related)]

(***************************************************************************)
(* The camera controller.  Numbers that are not integers are exact         *)
(* rationals <<numerator, denominator>>, denominator positive, reduced.    *)
(* The arithmetic binds its operands as values (x \in {a}) so that each is *)
(* evaluated once.                                                         *)
(***************************************************************************)
Abs(i) == IF i < 0 THEN 0 - i ELSE i

RECURSIVE GCD(_, _)
GCD(a, b) ==
  CHOOSE g \in {IF y = 0 THEN x ELSE GCD(y, x % y) : x \in {a}, y \in {b}} : TRUE

RatNorm(n, d) ==
  CHOOSE r \in UNION {{IF x < 0 THEN <<0 - (Abs(x) \div g), y \div g>>
                                ELSE <<x \div g, y \div g>> : g \in {GCD(Abs(x), y)}}
                       : x \in {n}, y \in {d}} : TRUE

RatOfInt(i) == <<i, 1>>
RatMul(a, b) ==
  CHOOSE r \in {RatNorm(x[1] * y[1], x[2] * y[2]) : x \in {a}, y \in {b}} : TRUE
RatSub(a, b) ==
  CHOOSE r \in {RatNorm(x[1] * y[2] - y[1] * x[2], x[2] * y[2]) : x \in {a}, y \in {b}} : TRUE
RatLess(a, b) == \E x \in {a}, y \in {b} : x[1] * y[2] < y[1] * x[2]
RatMin(a, b) == CHOOSE r \in {IF RatLess(y, x) THEN y ELSE x : x \in {a}, y \in {b}} : TRUE
RatMax(a, b) == CHOOSE r \in {IF RatLess(x, y) THEN y ELSE x : x \in {a}, y \in {b}} : TRUE

\* d3.zoomIdentity
zoomIdentity == [k |-> RatOfInt(1), x |-> RatOfInt(0), y |-> RatOfInt(0)]

\* d3.zoomIdentity.translate(tx, ty).scale(k)
TranslateScale(tx, ty, k) == [k |-> k, x |-> tx, y |-> ty]

NotPlaced == [finite |-> FALSE, x |-> 0, y |-> 0]

\* the camera fields a call can write, as one record
Camera ==
  [currentTransform |-> currentTransform, zoomTarget |-> zoomTarget,
   transitionActive |-> transitionActive, initialFocusDone |-> initialFocusDone,
   initialFocusScheduled |-> initialFocusScheduled, rafQueue |-> rafQueue,
   focusBoundsResult |-> focusBoundsResult, initialFocusRuns |-> initialFocusRuns]

SetCamera(cam) ==
  \E c \in {cam} :
    /\ currentTransform' = c.currentTransform
    /\ zoomTarget' = c.zoomTarget
    /\ transitionActive' = c.transitionActive
    /\ initialFocusDone' = c.initialFocusDone
    /\ initialFocusScheduled' = c.initialFocusScheduled
    /\ rafQueue' = c.rafQueue
    /\ focusBoundsResult' = c.focusBoundsResult
    /\ initialFocusRuns' = c.initialFocusRuns

\* graphState.currentTransform = transform; svg.transition().call(zoom.transform, transform)
ApplyTransform(cam, transform) ==
  [cam EXCEPT !.currentTransform = transform, !.zoomTarget = transform,
              !.transitionActive = TRUE]

FocusCallback(nodeId, scale) == [fn |-> "focusGraphNode", id |-> nodeId, scale |-> scale]
InitialFocusCallback == [fn |-> "attemptInitialFocus", id |-> NULL, scale |-> RatOfInt(0)]

\* focusGraphNode that gives up on a node without a finite position
focusGraphNodeNoRetry(cam, ready, nodeIds, positions, sz, nodeId, scale) ==
  IF ~ready THEN cam
  ELSE IF nodeId \notin nodeIds THEN cam
  ELSE IF ~positions[nodeId].finite THEN cam
       ELSE LET clampedScale == RatMin(RatOfInt(3), RatMax(<<1, 2>>, scale))
                node == positions[nodeId]
            IN ApplyTransform(cam,
                 TranslateScale(
                   RatSub(RatNorm(sz.width, 2), RatMul(RatOfInt(node.x), clampedScale)),
                   RatSub(RatNorm(sz.height, 2), RatMul(RatOfInt(node.y), clampedScale)),
                   clampedScale))

\* focusGraphNode (256-271): ready is graphState.svg && graphState.zoom
focusGraphNode(cam, ready, nodeIds, positions, sz, nodeId, scale) ==
  IF ~ready THEN cam
  ELSE IF nodeId \notin nodeIds THEN cam
  ELSE IF ~positions[nodeId].finite
       THEN [cam EXCEPT !.rafQueue = Append(@, FocusCallback(nodeId, scale))]
       ELSE LET clampedScale == RatMin(RatOfInt(3), RatMax(<<1, 2>>, scale))
                node == positions[nodeId]
            IN ApplyTransform(cam,
                 TranslateScale(
                   RatSub(RatNorm(sz.width, 2), RatMul(RatOfInt(node.x), clampedScale)),
                   RatSub(RatNorm(sz.height, 2), RatMul(RatOfInt(node.y), clampedScale)),
                   clampedScale))

MinOf(S) == CHOOSE m \in S : \A x \in S : m <= x

\* getGraphBounds (273-287) without its guards: the bounds of no node are taken as 0
getGraphBoundsUnguarded(nodeIds, positions) ==
  LET placed == {id \in nodeIds : positions[id].finite}
  IN IF placed = {} THEN [none |-> FALSE, minX |-> 0, maxX |-> 0, minY |-> 0, maxY |-> 0]
     ELSE [none |-> FALSE,
           minX |-> MinOf({positions[id].x : id \in placed}),
           maxX |-> MaxOf({positions[id].x : id \in placed}),
           minY |-> MinOf({positions[id].y : id \in placed}),
           maxY |-> MaxOf({positions[id].y : id \in placed})]

\* getGraphBounds (273-287): none stands for the null it returns
getGraphBounds(nodeIds, positions) ==
  LET placed == {id \in nodeIds : positions[id].finite}
  IN IF nodeIds = {} \/ placed = {}
     THEN [none |-> TRUE, minX |-> 0, maxX |-> 0, minY |-> 0, maxY |-> 0]
     ELSE [none |-> FALSE,
           minX |-> MinOf({positions[id].x : id \in placed}),
           maxX |-> MaxOf({positions[id].x : id \in placed}),
           minY |-> MinOf({positions[id].y : id \in placed}),
           maxY |-> MaxOf({positions[id].y : id \in placed})]

MaxInt(a, b) == IF a < b THEN b ELSE a

\* focusGraphBounds (289-309): the camera it leaves, focusBoundsResult its return value
focusGraphBounds(cam, ready, nodeIds, positions, sz, padding, maxScale) ==
  LET bounds == getGraphBounds(nodeIds, positions)
  IN IF ~ready THEN [cam EXCEPT !.focusBoundsResult = "false"]
     ELSE IF bounds.none THEN [cam EXCEPT !.focusBoundsResult = "false"]
     ELSE IF sz.width = 0 \/ sz.height = 0 THEN [cam EXCEPT !.focusBoundsResult = "false"]
     ELSE LET boundsWidth == MaxInt(1, bounds.maxX - bounds.minX)
              boundsHeight == MaxInt(1, bounds.maxY - bounds.minY)
              scaleX == RatNorm(sz.width, boundsWidth + padding)
              scaleY == RatNorm(sz.height, boundsHeight + padding)
              targetScale == RatMin(maxScale, RatMin(scaleX, scaleY))
              clampedScale == RatMin(RatOfInt(2), RatMax(<<7, 20>>, targetScale))
              centerX == RatNorm(bounds.minX + bounds.maxX, 2)
              centerY == RatNorm(bounds.minY + bounds.maxY, 2)
          IN [ApplyTransform(cam,
                TranslateScale(
                  RatSub(RatNorm(sz.width, 2), RatMul(centerX, clampedScale)),
                  RatSub(RatNorm(sz.height, 2), RatMul(centerY, clampedScale)),
                  clampedScale))
              EXCEPT !.focusBoundsResult = "true"]

\* attemptInitialFocus that places the camera without setting initialFocusDone
attemptInitialFocusUnmarked(cam, ready, rootId, nodeIds, positions, sz) ==
  IF cam.initialFocusDone THEN cam
  ELSE IF sz.width = 0 \/ sz.height = 0 \/ sz.width < 240 \/ sz.height < 240
       THEN [cam EXCEPT !.rafQueue = Append(@, InitialFocusCallback)]
  ELSE IF rootId \notin nodeIds \/ ~positions[rootId].finite
       THEN [cam EXCEPT !.rafQueue = Append(@, InitialFocusCallback)]
  ELSE LET marked == [cam EXCEPT !.initialFocusScheduled = FALSE, !.initialFocusRuns = @ + 1]
           fitted == focusGraphBounds(marked, ready, nodeIds, positions, sz, 260, <<19, 20>>)
       IN IF fitted.focusBoundsResult = "true" THEN fitted
          ELSE focusGraphNode(fitted, ready, nodeIds, positions, sz, rootId, <<17, 20>>)

\* attemptInitialFocus (311-329)
attemptInitialFocus(cam, ready, rootId, nodeIds, positions, sz) ==
  IF cam.initialFocusDone THEN cam
  ELSE IF sz.width = 0 \/ sz.height = 0 \/ sz.width < 240 \/ sz.height < 240
       THEN [cam EXCEPT !.rafQueue = Append(@, InitialFocusCallback)]
  ELSE IF rootId \notin nodeIds \/ ~positions[rootId].finite
       THEN [cam EXCEPT !.rafQueue = Append(@, InitialFocusCallback)]
  ELSE LET marked == [cam EXCEPT !.initialFocusDone = TRUE, !.initialFocusScheduled = FALSE,
                                 !.initialFocusRuns = @ + 1]
           fitted == focusGraphBounds(marked, ready, nodeIds, positions, sz, 260, <<19, 20>>)
       IN IF fitted.focusBoundsResult = "true" THEN fitted
          ELSE focusGraphNode(fitted, ready, nodeIds, positions, sz, rootId, <<17, 20>>)

\* scheduleInitialFocus (331-335)
scheduleInitialFocus(cam) ==
  IF cam.initialFocusDone \/ cam.initialFocusScheduled THEN cam
  ELSE [cam EXCEPT !.initialFocusScheduled = TRUE,
                   !.rafQueue = Append(@, InitialFocusCallback)]

\* one animation frame: the callbacks queued before the frame run in order; what
\* they request is queued for the next frame
RECURSIVE RunCallbacks(_, _, _, _, _, _, _)
RunCallbacks(cam, callbacks, ready, rootId, nodeIds, positions, sz) ==
  IF callbacks = <<>> THEN cam
  ELSE LET cb == Head(callbacks)
           after == IF cb.fn = "attemptInitialFocus"
                    THEN attemptInitialFocus(cam, ready, rootId, nodeIds, positions, sz)
                    ELSE focusGraphNode(cam, ready, nodeIds, positions, sz, cb.id, cb.scale)
       IN CHOOSE result \in {RunCallbacks(c, Tail(callbacks), ready, rootId, nodeIds,
                                          positions, sz) : c \in {after}} : TRUE

(***************************************************************************)
(* The cluster layout planner (computeClusterCenters, 90-111) and the pins *)
(* of the simulation nodes.  An anchor is kept as the centre of the        *)
(* viewport, a radius and an angle in turns: its x is                      *)
(* cx + cos(2 pi turn) * radius, its y is cy + sin(2 pi turn) * radius.    *)
(***************************************************************************)
RatAdd(a, b) ==
  CHOOSE r \in {RatNorm(x[1] * y[2] + y[1] * x[2], x[2] * y[2]) : x \in {a}, y \in {b}} : TRUE

\* a / b for b > 0
RatDiv(a, b) ==
  CHOOSE r \in {RatNorm(x[1] * y[2], x[2] * y[1]) : x \in {a}, y \in {b}} : TRUE

ZeroStats == [id \in Ids |-> [total_descendants |-> 0, direct_advisee_count |-> 0]]

\* computeInfluenceScore (72-77): totalDesc + directAdv * 0.5
computeInfluenceScore(st, id) ==
  RatAdd(RatOfInt(st[id].total_descendants),
         RatMul(RatOfInt(st[id].direct_advisee_count), <<1, 2>>))

\* normalizeValue (79-82)
normalizeValue(value, maxValue) ==
  IF maxValue = RatOfInt(0) THEN RatOfInt(0)
  ELSE IF ~RatLess(RatOfInt(0), value) THEN RatOfInt(0)
  ELSE RatMin(RatOfInt(1), RatDiv(value, maxValue))

\* normalizeInfluence (84-88) of a node of the list
normalizeInfluence(st, id, maxInfluence) ==
  IF maxInfluence = RatOfInt(0) THEN RatOfInt(0)
  ELSE normalizeValue(computeInfluenceScore(st, id), maxInfluence)

\* directAdvisees.reduce((max, node) => Math.max(max, score(node)), 0) || 1
RECURSIVE MaxInfluenceOf(_, _, _)
MaxInfluenceOf(st, advisees, max) ==
  IF advisees = <<>> THEN (IF max = RatOfInt(0) THEN RatOfInt(1) ELSE max)
  ELSE MaxInfluenceOf(st, Tail(advisees), RatMax(max, computeInfluenceScore(st, Head(advisees))))

NoCenter ==
  [set |-> FALSE, cx |-> RatOfInt(0), cy |-> RatOfInt(0), radius |-> RatOfInt(0),
   turn |-> RatOfInt(0)]

\* a radius that leaves the influence of the advisee out
AdviseeRadiusFlat(width, height, st, id, maxInfluence) ==
  RatMul(RatOfInt(IF width < height THEN width ELSE height), <<8, 25>>)

\* the radius of one direct advisee: baseRadius * (1 + influenceBoost * 0.6) (99-104)
AdviseeRadius(width, height, st, id, maxInfluence) ==
  RatMul(RatMul(RatOfInt(IF width < height THEN width ELSE height), <<8, 25>>),
         RatAdd(RatOfInt(1), RatMul(normalizeInfluence(st, id, maxInfluence), <<3, 5>>)))

\* computeClusterCenters (90-111)
computeClusterCenters(width, height, advisees, rootId, st) ==
  LET cx == RatNorm(width, 2)
      cy == RatNorm(height, 2)
      n == Len(advisees)
      maxInfluence == MaxInfluenceOf(st, advisees, RatOfInt(0))
      LastIndex(id) == CHOOSE i \in 1..n :
                         advisees[i] = id /\ \A j \in (i+1)..n : advisees[j] # id
  IN [id \in Ids |->
        IF \E i \in 1..n : advisees[i] = id
        THEN [set |-> TRUE, cx |-> cx, cy |-> cy,
              radius |-> AdviseeRadius(width, height, st, id, maxInfluence),
              turn |-> RatSub(RatNorm(LastIndex(id) - 1, n), <<1, 4>>)]
        ELSE IF id = rootId
             THEN [set |-> TRUE, cx |-> cx, cy |-> cy, radius |-> RatOfInt(0),
                   turn |-> RatOfInt(0)]
             ELSE NoCenter]

\* nodes.filter(node => node.id !== rootId && node.clusterId === node.id) (601)
DirectAdviseesOf(ns, ids, rootId) ==
  LET Keep(id) == id # rootId /\ ids[id] = id
  IN SelectSeq([i \in 1..Len(ns) |-> ns[i].id], Keep)

\* fx = fy = null
Unpinned == [pinned |-> FALSE, finite |-> FALSE, x |-> RatOfInt(0), y |-> RatOfInt(0)]

\* fx = width / 2, fy = height / 2 (793-794, 822-823, 660-661)
CentrePin(sz) ==
  [pinned |-> TRUE, finite |-> TRUE, x |-> RatNorm(sz.width, 2), y |-> RatNorm(sz.height, 2)]

(***************************************************************************)
(* Initial states: the dataset has been fetched, the graph is not built.   *)
(***************************************************************************)
\* the parent lists of one child: up to MaxParents distinct parents, in any order
ParentLists(child) ==
  {ps \in SeqsUpTo(Ids \ {child}, MaxParents) : Injective(ps)}

ChildOrder == <<"A", "B", "C">>

EdgesFrom(plists) ==
  Concat([k \in 1..Len(ChildOrder) |->
            [i \in 1..Len(plists[ChildOrder[k]]) |->
               [from |-> plists[ChildOrder[k]][i], to |-> ChildOrder[k]]]])

\* the dataset lists the root at depth 0 and every other node at a depth of 1 or more
NodeOrders == {<<"R", "A", "B", "C">>}

NodesFrom(order, d) ==
  [i \in 1..Len(order) |->
     [id |-> order[i], depth |-> IF order[i] = RootId THEN 0 ELSE d[order[i]]]]

Unbuilt ==
  /\ selectedNodeId = NULL
  /\ graphReady = FALSE
  /\ parentByChild = [id \in Ids |-> <<>>]
  /\ childrenByParent = [id \in Ids |-> <<>>]
  /\ depthById = [id \in Ids |-> NoDepth]
  /\ clusterCache = [id \in Ids |-> NULL]
  /\ clusterId = [id \in Ids |-> NULL]
  /\ maxDepth = 0
  /\ lineageNodes = {}
  /\ lineageEdges = {}
  /\ hoveredId = NULL
  /\ nodeClasses = <<>>
  /\ linkClasses = <<>>
  /\ size = [width |-> 0, height |-> 0]
  /\ pos = [id \in Ids |-> NotPlaced]
  /\ currentTransform = zoomIdentity
  /\ zoomTarget = zoomIdentity
  /\ transitionActive = FALSE
  /\ initialFocusDone = FALSE
  /\ initialFocusScheduled = FALSE
  /\ rafQueue = <<>>
  /\ focusBoundsResult = "none"
  /\ initialFocusRuns = 0
  /\ initSize = [width |-> 0, height |-> 0]
  /\ pin = [id \in Ids |-> Unpinned]
  /\ dragging = {}
  /\ directAdvisees = <<>>
  /\ clusterCenters = [id \in Ids |-> NoCenter]
  /\ initDone = FALSE
  /\ errorPanel = FALSE
  /\ resizeObserved = FALSE

DefaultSize == [width |-> 960, height |-> 720]

\* the page holds the #network container and its svg.graph-canvas
SurfacePresent == [container |-> TRUE, svg |-> TRUE]

InitResolve ==
  /\ root = RootId
  /\ \E order \in NodeOrders, d \in [NonRootIds -> 1..MaxDepthVal] :
       nodes = NodesFrom(order, d)
  /\ \E pa \in ParentLists("A"), pb \in ParentLists("B"), pc \in ParentLists("C") :
       edges = EdgesFrom([c \in NonRootIds |->
                            IF c = "A" THEN pa ELSE IF c = "B" THEN pb ELSE pc])
  /\ containerSize = DefaultSize
  /\ stats = ZeroStats
  /\ surface = SurfacePresent
  /\ Unbuilt

(***************************************************************************)
(* Actions.                                                                *)
(***************************************************************************)
\* selectNode (865-873): selectedNodeId, updateLineageHighlight and
\* highlightGraphSelection, on the given maps, lineage sets and classes
SelectHighlight(parentMap, depthMap, nodeId, ln, le, nc, lc) ==
  /\ selectedNodeId' = nodeId
  /\ IF nodeId \in NodeIds(nodes)
     THEN LET lineage == updateLineageHighlight(ln, le, parentMap, depthMap, root, nodeId)
          IN /\ lineageNodes' = lineage.nodes
             /\ lineageEdges' = lineage.edges
             /\ nodeClasses' = SelectedNodeClasses(LineageNodeClasses(nc, lineage.nodes), nodeId)
             /\ linkClasses' = SelectedLinkClasses(
                                 LineageLinkClasses(lc, lineage.nodes, lineage.edges), nodeId)
     ELSE /\ lineageNodes' = ln
          /\ lineageEdges' = le
          /\ nodeClasses' = nc
          /\ linkClasses' = lc

\* d3.forceLink(links).id(node => node.id), handed to simulation.force at 758, looks up
\* the source and the target of every link among the nodes and throws when one is missing
HasUnknownEndpoint(ns, es) ==
  \E i \in 1..Len(es) : es[i].from \notin NodeIds(ns) \/ es[i].to \notin NodeIds(ns)

\* the call of initGraph (489-842) by init, with its catch (351-356): initGraph returns
\* at 492 or 495 without a surface; it throws at 758 on a link with an unknown endpoint,
\* and init then calls showGraphError (987-997)
initGraph ==
  /\ ~initDone
  /\ initDone' = TRUE
  /\ IF ~surface.container \/ ~surface.svg
     THEN UNCHANGED <<selectedNodeId, graphReady, hierarchyVars, highlightVars, size, pos,
                      initSize, cameraVars, pinVars, anchorVars, errorPanel, resizeObserved>>
     ELSE /\ graphReady' = TRUE
          /\ size' = [width |-> IF containerSize.width # 0 THEN containerSize.width ELSE 960,
                      height |-> IF containerSize.height # 0 THEN containerSize.height ELSE 720]
          /\ initSize' = size'
          /\ depthById' = BuildDepthById(nodes)
          /\ parentByChild' = BuildParentByChild(edges)
          /\ childrenByParent' = BuildChildrenByParent(edges)
          /\ LET resolved == ResolveClusters(parentByChild', depthById', root, nodes, Len(nodes))
             IN /\ clusterCache' = resolved.cache
                /\ clusterId' = resolved.ids
          /\ maxDepth' = MaxOf({nodes[i].depth : i \in 1..Len(nodes)})
          /\ directAdvisees' = DirectAdviseesOf(nodes, clusterId', root)
          /\ clusterCenters' = computeClusterCenters(size'.width, size'.height, directAdvisees',
                                                     root, stats)
          /\ hoveredId' = NULL
          /\ pos' = [id \in Ids |-> NotPlaced]
          /\ dragging' = {}
          /\ IF HasUnknownEndpoint(nodes, edges)
             THEN /\ errorPanel' = TRUE
                  /\ resizeObserved' = FALSE
                  /\ pin' = [id \in Ids |-> Unpinned]
                  /\ selectedNodeId' = selectedNodeId
                  /\ lineageNodes' = {}
                  /\ lineageEdges' = {}
                  /\ nodeClasses' = [id \in NodeIds(nodes) |-> {}]
                  /\ linkClasses' = [i \in 1..Len(edges) |-> {}]
                  /\ SetCamera([Camera EXCEPT !.initialFocusDone = FALSE,
                                              !.initialFocusScheduled = FALSE,
                                              !.currentTransform = zoomIdentity])
             ELSE /\ errorPanel' = errorPanel
                  /\ resizeObserved' = TRUE
                  /\ pin' = [id \in Ids |-> IF id = root /\ id \in NodeIds(nodes)
                                             THEN CentrePin(size') ELSE Unpinned]
                  /\ SelectHighlight(parentByChild', depthById', root, {}, {},
                                     [id \in NodeIds(nodes) |-> {}],
                                     [i \in 1..Len(edges) |-> {}])
                  /\ SetCamera(scheduleInitialFocus(
                       [Camera EXCEPT !.initialFocusDone = FALSE,
                                      !.initialFocusScheduled = FALSE,
                                      !.currentTransform = zoomIdentity]))
  /\ UNCHANGED <<dataVars, surface, containerSize>>

\* selectNode (865-882); the roster, the profile card and the preview are not modelled
selectNode(nodeId, focus) ==
  /\ graphReady
  /\ SelectHighlight(parentByChild, depthById, nodeId, lineageNodes, lineageEdges,
                     nodeClasses, linkClasses)
  /\ IF focus /\ nodeId \in NodeIds(nodes)
     THEN SetCamera(focusGraphNode(Camera, graphReady, NodeIds(nodes), pos, size, nodeId,
                                   IF nodeId = root THEN <<21, 20>> ELSE <<27, 20>>))
     ELSE UNCHANGED cameraVars
  /\ UNCHANGED <<dataVars, surfaceVars, graphReady, hierarchyVars, hoveredId, layoutVars,
                 pinVars, anchorVars>>

\* click on a node element (707-710)
nodeClick(nodeId) ==
  /\ nodeId \in NodeIds(nodes)
  /\ selectNode(nodeId, FALSE)

\* click on the canvas background (633-638): clearLineageHighlight (194-198) and
\* highlightGraphSelection(null)
svgClick ==
  /\ graphReady
  /\ lineageNodes' = {}
  /\ lineageEdges' = {}
  /\ nodeClasses' = SelectedNodeClasses(LineageNodeClasses(nodeClasses, {}), NULL)
  /\ linkClasses' = SelectedLinkClasses(LineageLinkClasses(linkClasses, {}, {}), NULL)
  /\ UNCHANGED <<dataVars, surfaceVars, selectedNodeId, graphReady, hierarchyVars, hoveredId,
                 layoutVars, cameraVars, pinVars, anchorVars>>

\* applyHoverHighlight (200-238)
applyHoverHighlight(nodeId) ==
  /\ graphReady
  /\ nodeClasses' = HoverNodeClasses(nodeClasses, nodeId)
  /\ linkClasses' = HoverLinkClasses(linkClasses, nodeId)
  /\ hoveredId' = nodeId
  /\ UNCHANGED <<dataVars, surfaceVars, selectedNodeId, graphReady, hierarchyVars,
                 lineageNodes, lineageEdges, layoutVars, cameraVars, pinVars, anchorVars>>

\* mouseover / focus on a node element (715-723)
nodeMouseOver(nodeId) ==
  /\ nodeId \in NodeIds(nodes)
  /\ applyHoverHighlight(nodeId)

\* mouseout / blur on a node element (718-726)
nodeMouseOut ==
  /\ hoveredId' = NULL
  /\ applyHoverHighlight(NULL)

\* click on a roster entry (480): selectNode(node.id, { focus: true }); taken while
\* fewer than MaxRaf animation-frame callbacks are waiting
rosterClick(nodeId) ==
  /\ nodeId \in NodeIds(nodes)
  /\ Len(rafQueue) < MaxRaf
  /\ selectNode(nodeId, TRUE)

\* the force simulation (756-786, d3) writes the positions of the nodes; what it
\* writes is its own business: any position of Positions, or a value that is not finite
Positions == {[finite |-> TRUE, x |-> 0, y |-> 0], [finite |-> TRUE, x |-> 400, y |-> 300]}

simulationTick ==
  /\ graphReady
  /\ \E placement \in [NodeIds(nodes) -> Positions \cup {NotPlaced}] :
       pos' = [id \in Ids |-> IF id \in NodeIds(nodes) THEN placement[id] ELSE NotPlaced]
  /\ UNCHANGED <<dataVars, surfaceVars, selectedNodeId, graphReady, hierarchyVars,
                 highlightVars, containerSize, size, initSize, cameraVars, pinVars, anchorVars>>

\* the browser runs the waiting animation-frame callbacks (261, 315, 320, 334)
animationFrame ==
  /\ rafQueue # <<>>
  /\ SetCamera(RunCallbacks([Camera EXCEPT !.rafQueue = <<>>], rafQueue, graphReady, root,
                            NodeIds(nodes), pos, size))
  /\ UNCHANGED <<dataVars, surfaceVars, selectedNodeId, graphReady, hierarchyVars,
                 highlightVars, layoutVars, pinVars, anchorVars>>

\* the transition started by zoom.transform ends: the zoom listener (628-631) stores
\* the transform the transition ends on
zoomTransitionEnd ==
  /\ transitionActive
  /\ transitionActive' = FALSE
  /\ currentTransform' = zoomTarget
  /\ UNCHANGED <<dataVars, surfaceVars, selectedNodeId, graphReady, hierarchyVars,
                 highlightVars, layoutVars, zoomTarget, initialFocusDone,
                 initialFocusScheduled, rafQueue, focusBoundsResult, initialFocusRuns,
                 pinVars, anchorVars>>

\* a call focusGraphBounds() with its default padding 200 and maxScale 1.05 (289)
callFocusGraphBounds ==
  /\ SetCamera(focusGraphBounds(Camera, graphReady, NodeIds(nodes), pos, size, 200, <<21, 20>>))
  /\ UNCHANGED <<dataVars, surfaceVars, selectedNodeId, graphReady, hierarchyVars,
                 highlightVars, layoutVars, pinVars, anchorVars>>

\* a container not laid out yet (0 x 0), a small one and a tiny one
ContainerSizes ==
  {[width |-> 0, height |-> 0], [width |-> 480, height |-> 360], [width |-> 200, height |-> 200]}

\* the ResizeObserver callback (798-832) for the container in its new rectangle; taken
\* while fewer than MaxRaf animation-frame callbacks are waiting
resize(rect) ==
  /\ resizeObserved
  /\ Len(rafQueue) < MaxRaf
  /\ containerSize' = rect
  /\ LET newWidth == IF rect.width # 0 THEN rect.width ELSE initSize.width
         newHeight == IF rect.height # 0 THEN rect.height ELSE initSize.height
     IN IF newWidth = 0 \/ newHeight = 0
        THEN UNCHANGED <<size, clusterCenters, pin, cameraVars>>
        ELSE /\ size' = [width |-> newWidth, height |-> newHeight]
             /\ clusterCenters' = computeClusterCenters(newWidth, newHeight, directAdvisees,
                                                        root, stats)
             /\ pin' = [id \in Ids |-> IF id = root /\ id \in NodeIds(nodes)
                                        THEN CentrePin(size') ELSE pin[id]]
             /\ IF ~initialFocusDone
                THEN SetCamera(scheduleInitialFocus(Camera))
                ELSE SetCamera(focusGraphNode(Camera, graphReady, NodeIds(nodes), pos, size',
                                              root, currentTransform.k))
  /\ UNCHANGED <<dataVars, surfaceVars, selectedNodeId, graphReady, hierarchyVars,
                 highlightVars, pos, initSize, dragging, directAdvisees>>

\* drag "start" on a node element (644-650): the node is pinned where it is
dragStart(nodeId) ==
  /\ resizeObserved
  /\ nodeId \in NodeIds(nodes) \ dragging
  /\ dragging' = dragging \cup {nodeId}
  /\ pin' = [pin EXCEPT ![nodeId] = [pinned |-> TRUE, finite |-> pos[nodeId].finite,
                                     x |-> RatOfInt(pos[nodeId].x),
                                     y |-> RatOfInt(pos[nodeId].y)]]
  /\ UNCHANGED <<dataVars, surfaceVars, selectedNodeId, graphReady, hierarchyVars,
                 highlightVars, layoutVars, cameraVars, anchorVars>>

\* the places of the pointer during a drag
PointerPlaces == {[x |-> 0, y |-> 0], [x |-> 400, y |-> 300]}

\* drag "drag" (651-654): the node is pinned to the pointer
dragMove(nodeId, pointer) ==
  /\ nodeId \in dragging
  /\ pin' = [pin EXCEPT ![nodeId] = [pinned |-> TRUE, finite |-> TRUE,
                                     x |-> RatOfInt(pointer.x), y |-> RatOfInt(pointer.y)]]
  /\ UNCHANGED <<dataVars, surfaceVars, selectedNodeId, graphReady, hierarchyVars,
                 highlightVars, layoutVars, cameraVars, dragging, anchorVars>>

\* a drag "end" that releases every node, the root too
PinAtDragEndReleaseAll(rootId, sz, nodeId) == Unpinned

\* what drag "end" leaves in (fx, fy) (659-665)
PinAtDragEnd(rootId, sz, nodeId) == IF nodeId = rootId THEN CentrePin(sz) ELSE Unpinned

\* drag "end" (655-666)
dragEnd(nodeId) ==
  /\ nodeId \in dragging
  /\ dragging' = dragging \ {nodeId}
  /\ pin' = [pin EXCEPT ![nodeId] = PinAtDragEnd(root, size, nodeId)]
  /\ UNCHANGED <<dataVars, surfaceVars, selectedNodeId, graphReady, hierarchyVars,
                 highlightVars, layoutVars, cameraVars, anchorVars>>

(***************************************************************************)
(* Specifications.  SpecResolve builds the graph of every dataset of the   *)
(* large family.  Spec is the highlight state manager under the pointer    *)
(* events of the graph (node click, background click, hover).  SpecCamera  *)
(* is the camera controller on small graphs: the simulation, the animation *)
(* frames, focus requests from the roster and calls of focusGraphBounds.   *)
(***************************************************************************)
NextResolve == initGraph

SpecResolve == InitResolve /\ [][NextResolve]_vars

\* A is at depth 1, listed under the root or under nobody; B has at most one listed
\* parent; C has up to MaxParents; B and C are at any depth up to MaxDepthVal
ShortParentLists(child) == {ps \in ParentLists(child) : Len(ps) <= 1}

Init ==
  /\ root = RootId
  /\ \E order \in NodeOrders, d \in [NonRootIds -> 1..MaxDepthVal] :
       /\ d["A"] = 1
       /\ nodes = NodesFrom(order, d)
  /\ \E pa \in {<<>>, <<RootId>>}, pb \in ShortParentLists("B"), pc \in ParentLists("C") :
       edges = EdgesFrom([c \in NonRootIds |->
                            IF c = "A" THEN pa ELSE IF c = "B" THEN pb ELSE pc])
  /\ containerSize = DefaultSize
  /\ stats = ZeroStats
  /\ surface = SurfacePresent
  /\ Unbuilt

Next ==
  \/ initGraph
  \/ \E id \in Ids : nodeClick(id)
  \/ svgClick
  \/ \E id \in Ids : nodeMouseOver(id)
  \/ nodeMouseOut

Spec == Init /\ [][Next]_vars

\* the graphs of the camera runs: no node, the root alone, the root and one advisee
CameraNodeLists == {<<>>, <<"R">>, <<"R", "A">>}

InitCamera ==
  /\ root = RootId
  /\ \E order \in CameraNodeLists :
       /\ nodes = NodesFrom(order, [c \in NonRootIds |-> 1])
       /\ edges = IF "A" \in Range(order) THEN <<[from |-> "R", to |-> "A"]>> ELSE <<>>
  /\ containerSize \in ContainerSizes
  /\ stats = ZeroStats
  /\ surface = SurfacePresent
  /\ Unbuilt

NextCamera ==
  \/ initGraph
  \/ simulationTick
  \/ animationFrame
  \/ zoomTransitionEnd
  \/ \E id \in Ids : rosterClick(id)
  \/ callFocusGraphBounds

SpecCamera == InitCamera /\ [][NextCamera]_vars

\* the graphs of the focus runs: the root alone, the root and one advisee
FocusNodeLists == {<<"R">>, <<"R", "A">>}

InitFocus ==
  /\ root = RootId
  /\ \E order \in FocusNodeLists :
       /\ nodes = NodesFrom(order, [c \in NonRootIds |-> 1])
       /\ edges = IF "A" \in Range(order) THEN <<[from |-> "R", to |-> "A"]>> ELSE <<>>
  /\ containerSize \in ContainerSizes
  /\ stats = ZeroStats
  /\ surface = SurfacePresent
  /\ Unbuilt

\* the initial camera placement under ticks, frames and resizes
NextInitialFocus ==
  \/ initGraph
  \/ simulationTick
  \/ animationFrame
  \/ zoomTransitionEnd
  \/ \E rect \in ContainerSizes : resize(rect)

\* the browser keeps running animation frames while callbacks are waiting
SpecInitialFocus == InitFocus /\ [][NextInitialFocus]_vars /\ WF_vars(animationFrame)

\* focus requests from the roster under ticks and frames
NextFocusNode ==
  \/ initGraph
  \/ simulationTick
  \/ animationFrame
  \/ zoomTransitionEnd
  \/ \E id \in Ids : rosterClick(id)

\* the focus requests are followed in a container that is laid out and in one that is not
InitFocusNode ==
  /\ InitFocus
  /\ containerSize \in {[width |-> 0, height |-> 0], [width |-> 480, height |-> 360]}

SpecFocusNode == InitFocusNode /\ [][NextFocusNode]_vars /\ WF_vars(animationFrame)

\* the pins of the simulation nodes under drag gestures, resizes and ticks
NextPins ==
  \/ initGraph
  \/ simulationTick
  \/ \E rect \in ContainerSizes : resize(rect)
  \/ \E id \in Ids : dragStart(id)
  \/ \E id \in Ids, pointer \in PointerPlaces : dragMove(id, pointer)
  \/ \E id \in Ids : dragEnd(id)

SpecPins == InitFocus /\ [][NextPins]_vars

\* the datasets of the load runs: up to three nodes, up to two edges between any
\* two different ids, an id that is no node included
LoadNodeLists == {<<"R">>, <<"R", "A">>, <<"R", "A", "B">>}

LoadEdgeLists ==
  SeqsUpTo({[from |-> f, to |-> t] : f, t \in Ids} \ {[from |-> x, to |-> x] : x \in Ids}, 2)

\* the pages of the load runs: with or without the container, with or without the svg
Surfaces == [container : BOOLEAN, svg : BOOLEAN] \ {[container |-> FALSE, svg |-> TRUE]}

InitLoad ==
  /\ root = RootId
  /\ \E order \in LoadNodeLists : nodes = NodesFrom(order, [c \in NonRootIds |-> 1])
  /\ edges \in LoadEdgeLists
  /\ containerSize = DefaultSize
  /\ stats = ZeroStats
  /\ surface \in Surfaces
  /\ Unbuilt

NextLoad == initGraph

SpecLoad == InitLoad /\ [][NextLoad]_vars

\* the tree of the anchor runs: R -> A, R -> B, A -> C, the two advisees of the root
\* listed in either order
AnchorNodeOrders == {<<"R", "A", "B", "C">>, <<"R", "B", "A", "C">>}

AnchorEdges == <<[from |-> "R", to |-> "A"], [from |-> "R", to |-> "B"], [from |-> "A", to |-> "C"]>>

\* the counts the dataset carries for A and B: those of the tree or missing ones (?? 0)
AnchorStats ==
  {[id \in Ids |-> IF id = "A" THEN a ELSE IF id = "B" THEN b ELSE ZeroStats[id]] :
     a, b \in [total_descendants : 0..1, direct_advisee_count : 0..1]}

\* the viewports of the anchor runs
AnchorSizes == {DefaultSize, [width |-> 480, height |-> 360], [width |-> 360, height |-> 480]}

InitAnchors ==
  /\ root = RootId
  /\ \E order \in AnchorNodeOrders :
       nodes = NodesFrom(order, [c \in NonRootIds |-> IF c = "C" THEN 2 ELSE 1])
  /\ edges = AnchorEdges
  /\ containerSize = DefaultSize
  /\ stats \in AnchorStats
  /\ surface = SurfacePresent
  /\ Unbuilt

\* the cluster anchors under resizes and animation frames
NextAnchors ==
  \/ initGraph
  \/ \E rect \in AnchorSizes : resize(rect)
  \/ animationFrame

SpecAnchors == InitAnchors /\ [][NextAnchors]_vars

(***************************************************************************)
(* Properties of the hierarchy resolver.                                   *)
(***************************************************************************)
\* every non-root node has at least one parent of smaller depth
WellFormed ==
  LET depthOf == BuildDepthById(nodes)
  IN \A i \in 1..Len(nodes) :
       nodes[i].id # root =>
         \E k \in 1..Len(edges) :
           /\ edges[k].to = nodes[i].id
           /\ depthOf[edges[k].from] # NoDepth
           /\ depthOf[edges[k].from] < nodes[i].depth

\* the ids met by applying getPreferredParent repeatedly, at most fuel times,
\* stopping at the root or at a node without parent
RECURSIVE ChainFrom(_, _)
ChainFrom(current, fuel) ==
  IF current = root \/ fuel = 0 THEN <<current>>
  ELSE LET parent == getPreferredParent(current)
       IN IF parent = NULL THEN <<current>>
          ELSE <<current>> \o ChainFrom(parent, fuel - 1)

\* C1: in a well-formed tree, following getPreferredParent from any node reaches
\* the root within maxDepth+1 steps and visits no id twice.
C1_ChainReachesRoot ==
  (graphReady /\ WellFormed) =>
    \A n \in NodeIds(nodes) :
      LET chain == ChainFrom(n, maxDepth + 1)
      IN chain[Len(chain)] = root /\ Injective(chain)

C1_Witness ==
  /\ graphReady
  /\ WellFormed
  /\ \E n \in NodeIds(nodes) :
       /\ Len(parentByChild[n]) >= 2
       /\ Len(ChainFrom(n, maxDepth + 1)) = 3

\* C2: the clusterId of every node is the root or a node that has the root as a
\* parent, and resolving the cluster of that id gives the same id again.
C2_ClusterIsRootChildAndIdempotent ==
  graphReady =>
    \A n \in NodeIds(nodes) :
      LET c == clusterId[n]
      IN /\ c = root \/ root \in Range(parentByChild[c])
         /\ getClusterId(parentByChild, depthById, root, clusterCache, c).result = c

C2_Witness ==
  /\ graphReady
  /\ \E n \in NodeIds(nodes) :
       /\ clusterId[n] \notin {n, root}
       /\ Len(parentByChild[n]) >= 2

\* the ancestor found by walking preferred-parent links upward until the node whose
\* preferred parent is the root; the root when there is none
RECURSIVE AnchorFrom(_, _)
AnchorFrom(current, seen) ==
  IF current = root THEN root
  ELSE LET parent == getPreferredParent(current)
       IN IF parent = NULL \/ parent \in seen THEN root
          ELSE IF parent = root THEN current
          ELSE AnchorFrom(parent, seen \cup {parent})

\* C3: the clusterId of every node, nodes with more than one parent included,
\* equals the ancestor obtained by walking preferred-parent links upward until the
\* node whose preferred parent is the root.  Stated on the well-formed trees, the
\* inputs the resolver is specified for: it fails there already.
C3_ClusterIsPreferredAnchor ==
  (graphReady /\ WellFormed) =>
    \A n \in NodeIds(nodes) : clusterId[n] = AnchorFrom(n, {n})

\* the parent of minimal depth, the smaller id among parents of equal depth
MinimalParent(P) ==
  CHOOSE p \in P :
    \A q \in P :
      \/ p = q
      \/ DepthOrInf(depthById, p) < DepthOrInf(depthById, q)
      \/ DepthOrInf(depthById, p) = DepthOrInf(depthById, q) /\ StrLess(p, q)

\* C4: getPreferredParent returns null for an id without recorded parents, and
\* otherwise the parent of minimal depth, the lexicographically smaller id among
\* those of equal minimal depth, whatever the order of the edges.
C4_PreferredParentIsMinimal ==
  graphReady =>
    \A id \in Ids :
      LET P == Range(parentByChild[id])
      IN IF P = {} THEN getPreferredParent(id) = NULL
         ELSE getPreferredParent(id) = MinimalParent(P)

C4_Witness ==
  /\ graphReady
  /\ getPreferredParent(root) = NULL
  /\ \E id \in Ids :
       /\ Len(parentByChild[id]) = 2
       /\ depthById[parentByChild[id][1]] = depthById[parentByChild[id][2]]
       /\ StrLess(parentByChild[id][2], parentByChild[id][1])
       /\ getPreferredParent(id) = parentByChild[id][2]

(***************************************************************************)
(* Properties of the highlight state manager.                              *)
(***************************************************************************)
\* the nodes on the preferred-parent chain from the nodes of S: the least set that
\* holds S and, with every node but the root, its preferred parent
RECURSIVE ChainClosure(_)
ChainClosure(S) ==
  LET next == S \cup {getPreferredParent(x) :
                        x \in {y \in S : y # root /\ getPreferredParent(y) # NULL}}
  IN IF next = S THEN S ELSE ChainClosure(next)

\* the keys of the (parent, child) edges the chain traverses from the nodes of S
ChainEdgeKeys(S) ==
  {edgeKey(getPreferredParent(x), x) :
     x \in {y \in S : y # root /\ getPreferredParent(y) # NULL}}

ExampleEdges ==
  <<[from |-> "R", to |-> "A"], [from |-> "R", to |-> "B"], [from |-> "A", to |-> "C"]>>

\* C5: after selectNode(s) for a node s, lineageNodes is exactly the nodes of the
\* preferred-parent chain from s (up to the root or to a node without parent)
\* together with the root, and lineageEdges exactly the edges traversed; with edges
\* R->A, R->B, A->C selecting C gives nodes {C,A,R} and edges {(A,C),(R,A)}.
C5_SelectLineageIsChain ==
  [][\A s \in Ids :
       nodeClick(s) =>
         /\ lineageNodes' = ChainClosure({s}) \cup {root}
         /\ lineageEdges' = ChainEdgeKeys(ChainClosure({s}))
         /\ (edges = ExampleEdges /\ s = "C") =>
              /\ lineageNodes' = {"C", "A", "R"}
              /\ lineageEdges' = {edgeKey("A", "C"), edgeKey("R", "A")}]_vars

C5_Witness ==
  /\ graphReady
  /\ edges = ExampleEdges
  /\ selectedNodeId = "C"
  /\ lineageNodes = {"C", "A", "R"}
  /\ lineageEdges = {edgeKey("A", "C"), edgeKey("R", "A")}

\* the direct children of h, from the edge list
ChildrenIn(h) == {edges[i].to : i \in {k \in 1..Len(edges) : edges[k].from = h}}

\* the minimal-depth, smallest-id parent of h as a set: empty when h has no parent
PreferredParentSet(h) ==
  IF parentByChild[h] = <<>> THEN {} ELSE {MinimalParent(Range(parentByChild[h]))}

HoveredNodes == {id \in NodeIds(nodes) : "hovered" \in nodeClasses[id]}
HoveredLinkKeys == {LinkKey(i) : i \in {k \in LinkIndices : "hovered" \in linkClasses[k]}}
HoverMutedNodes == {id \in NodeIds(nodes) : "hover-muted" \in nodeClasses[id]}
HoverMutedLinkKeys == {LinkKey(i) : i \in {k \in LinkIndices : "hover-muted" \in linkClasses[k]}}

\* C6: for a hovered node h the related nodes are exactly h, its preferred parent
\* (if any) and its direct children, and the related edges exactly (preferred
\* parent, h) and (h, child) for every child; for a leaf that is {h, preferred
\* parent} and the one edge (preferred parent, h), no other parent and no child.
C6_HoverNeighbourhood ==
  (graphReady /\ hoveredId # NULL) =>
    LET h == hoveredId
        relatedNodes == {h} \cup PreferredParentSet(h) \cup ChildrenIn(h)
        relatedEdges == {edgeKey(p, h) : p \in PreferredParentSet(h)}
                        \cup {edgeKey(h, c) : c \in ChildrenIn(h)}
    IN /\ HoveredNodes = relatedNodes
       /\ HoveredLinkKeys = relatedEdges
       /\ HoverMutedNodes = NodeIds(nodes) \ relatedNodes
       /\ HoverMutedLinkKeys = {LinkKey(i) : i \in LinkIndices} \ relatedEdges
       /\ ChildrenIn(h) = {} =>
            /\ HoveredNodes = {h} \cup PreferredParentSet(h)
            /\ HoveredLinkKeys = {edgeKey(p, h) : p \in PreferredParentSet(h)}

\* a hovered leaf with two listed parents: only the preferred one is related
C6_Witness ==
  /\ graphReady
  /\ hoveredId # NULL
  /\ ChildrenIn(hoveredId) = {}
  /\ Len(parentByChild[hoveredId]) = 2
  /\ Cardinality(HoveredNodes) = 2
  /\ Cardinality(HoveredLinkKeys) = 1

\* the lineage selecting a gives, from the dataset alone
StaticLineage(a) ==
  updateLineageHighlight({}, {}, BuildParentByChild(edges), BuildDepthById(nodes), root, a)

\* C7: the lineage sets a selection produces depend only on the selected id and on
\* the static adjacency, not on the history: whatever was selected, hovered or
\* cleared before, selecting a gives the same sets (so select A, select B, select
\* A restores the sets of the first selection of A).
C7_LineageIgnoresHistory ==
  [][/\ graphReady => UNCHANGED <<dataVars, parentByChild, childrenByParent, depthById>>
     /\ \A a \in Ids :
          nodeClick(a) =>
            /\ lineageNodes' = StaticLineage(a).nodes
            /\ lineageEdges' = StaticLineage(a).edges]_vars

\* a node is selected while another node is hovered and its lineage is of two or more nodes
C7_Witness ==
  /\ graphReady
  /\ selectedNodeId \notin {NULL, root}
  /\ hoveredId \notin {NULL, selectedNodeId}
  /\ lineageNodes = StaticLineage(selectedNodeId).nodes
  /\ lineageEdges = StaticLineage(selectedNodeId).edges
  /\ Cardinality(lineageNodes) = 3

LineageFlags(classes) == [x \in DOMAIN classes |-> classes[x] \cap LineageClassNames]
HoverFlags(classes) == [x \in DOMAIN classes |-> classes[x] \cap HoverClassNames]

\* C8: a hover change leaves lineageNodes, lineageEdges and every lineage-active /
\* lineage-muted flag unchanged; a selection or a lineage clear leaves hoveredId
\* and every hovered / hover-muted flag unchanged.
C8_OverlaysIndependent ==
  [][/\ ((\E id \in Ids : nodeMouseOver(id)) \/ nodeMouseOut) =>
          /\ UNCHANGED <<lineageNodes, lineageEdges>>
          /\ LineageFlags(nodeClasses') = LineageFlags(nodeClasses)
          /\ LineageFlags(linkClasses') = LineageFlags(linkClasses)
     /\ ((\E id \in Ids : nodeClick(id)) \/ svgClick) =>
          /\ UNCHANGED hoveredId
          /\ HoverFlags(nodeClasses') = HoverFlags(nodeClasses)
          /\ HoverFlags(linkClasses') = HoverFlags(linkClasses)]_vars

\* both overlays are on at once: a lineage of several nodes with muted elements and
\* a hover with muted elements
C8_Witness ==
  /\ graphReady
  /\ hoveredId # NULL
  /\ Cardinality(lineageNodes) > 1
  /\ \E id \in NodeIds(nodes) : {"lineage-muted", "hovered"} \subseteq nodeClasses[id]
  /\ \E id \in NodeIds(nodes) : {"lineage-active", "hover-muted"} \subseteq nodeClasses[id]

\* C9: a node or an edge carries lineage-muted if and only if lineageNodes has more
\* than one member and it is not in the lineage sets; with zero or one member no
\* node and no edge is lineage-muted.
C9_MutedIffOutsideLineage ==
  graphReady =>
    /\ \A id \in NodeIds(nodes) :
         ("lineage-muted" \in nodeClasses[id]) <=>
           (Cardinality(lineageNodes) > 1 /\ id \notin lineageNodes)
    /\ \A i \in LinkIndices :
         ("lineage-muted" \in linkClasses[i]) <=>
           (Cardinality(lineageNodes) > 1 /\ LinkKey(i) \notin lineageEdges)
    /\ Cardinality(lineageNodes) <= 1 =>
         /\ \A id \in NodeIds(nodes) : "lineage-muted" \notin nodeClasses[id]
         /\ \A i \in LinkIndices : "lineage-muted" \notin linkClasses[i]

\* a lineage of several nodes that mutes a node and an edge and leaves others unmuted
C9_Witness ==
  /\ graphReady
  /\ Cardinality(lineageNodes) > 1
  /\ \E id \in NodeIds(nodes) : "lineage-muted" \in nodeClasses[id]
  /\ \E i \in LinkIndices : "lineage-muted" \in linkClasses[i]
  /\ \E i \in LinkIndices : "lineage-muted" \notin linkClasses[i]

(***************************************************************************)
(* Properties of the camera controller.                                    *)
(***************************************************************************)
NoFinitePosition == \A id \in NodeIds(nodes) : ~pos[id].finite

\* C10: focusGraphBounds called when no node has a finite position (the zero-node
\* graph included) returns false and leaves graphState.currentTransform and the
\* applied zoom transform unchanged; it returns true only when it has set a new
\* transform.
C10_FocusBoundsFalseLeavesTransform ==
  [][callFocusGraphBounds =>
       /\ NoFinitePosition =>
            /\ focusBoundsResult' = "false"
            /\ UNCHANGED <<currentTransform, zoomTarget, transitionActive>>
       /\ focusBoundsResult' = "true" =>
            /\ ~NoFinitePosition
            /\ transitionActive'
            /\ zoomTarget' = currentTransform'
            /\ ~RatLess(currentTransform'.k, <<7, 20>>)
            /\ ~RatLess(<<21, 20>>, currentTransform'.k)]_vars

\* focusGraphBounds has returned false on the built graph without nodes, and the
\* transform is the identity initGraph set
C10_Witness ==
  /\ graphReady
  /\ nodes = <<>>
  /\ focusBoundsResult = "false"
  /\ currentTransform = zoomIdentity
  /\ zoomTarget = zoomIdentity
  /\ ~transitionActive

\* the viewport is at least 240 x 240 and the root has a finite position
InitialFocusPossible ==
  /\ size.width >= 240
  /\ size.height >= 240
  /\ root \in NodeIds(nodes)
  /\ pos[root].finite

\* C11: for one graph initialization and every interleaving of animation frames and
\* resizes, the initial camera placement is retried each frame until the viewport
\* is at least 240 x 240 and the root has a finite position, and is then executed
\* exactly once: while it has not run its callback waits for the next frame, a frame
\* that finds the viewport large enough and the root placed runs it, no frame or
\* resize runs it a second time, and it eventually runs once the viewport stays
\* large enough and the root stays placed.
C11_InitialFocusExactlyOnce ==
  /\ [](initialFocusRuns <= 1)
  /\ []((resizeObserved /\ ~initialFocusDone) =>
          (initialFocusRuns = 0 /\ InitialFocusCallback \in Range(rafQueue)))
  /\ [](initialFocusDone =>
          (initialFocusRuns = 1 /\ InitialFocusCallback \notin Range(rafQueue)))
  /\ [][(animationFrame /\ ~initialFocusDone) =>
          (initialFocusDone' <=> InitialFocusPossible)]_vars
  /\ (<>[]InitialFocusPossible) => <>(initialFocusRuns = 1)

\* the placement has run once, and later a resize has shrunk the viewport and the
\* frames that followed have run every waiting callback
C11_Witness ==
  /\ initialFocusRuns = 1
  /\ initialFocusDone
  /\ size = [width |-> 200, height |-> 200]
  /\ rafQueue = <<>>
  /\ ~transitionActive

\* the scale of the focus a roster click asks for (875)
RosterScale(id) == IF id = root THEN <<21, 20>> ELSE <<27, 20>>

\* a focus callback of the roster click on id waits for the next frame
FocusPending(id) == FocusCallback(id, RosterScale(id)) \in Range(rafQueue)

\* transform t shows the node at the centre of the viewport, at the scale clamped to [0.5, 3]
CentredOn(t, nodeId, scale) ==
  LET k == RatMin(RatOfInt(3), RatMax(<<1, 2>>, scale))
  IN /\ t.k = k
     /\ RatAdd(t.x, RatMul(k, RatOfInt(pos[nodeId].x))) = RatNorm(size.width, 2)
     /\ RatAdd(t.y, RatMul(k, RatOfInt(pos[nodeId].y))) = RatNorm(size.height, 2)

\* C12: focusGraphNode called for an existing node whose position is not yet finite
\* does not fail and does not change the transform, it re-schedules itself on the
\* next animation frame (at the call and at every frame that still finds the node
\* unplaced); the frame that finds the node placed applies the transform centred on
\* it at the clamped scale, so if the simulation eventually places the node the
\* transform is eventually applied.
C12_FocusNodeWaitsForPosition ==
  /\ [][\A id \in Ids :
          (rosterClick(id) /\ ~pos[id].finite) =>
            /\ UNCHANGED <<currentTransform, zoomTarget, transitionActive>>
            /\ rafQueue' = Append(rafQueue, FocusCallback(id, RosterScale(id)))]_vars
  /\ [][animationFrame =>
          \A i \in 1..Len(rafQueue) :
            rafQueue[i].fn = "focusGraphNode" =>
              IF ~pos[rafQueue[i].id].finite
              THEN rafQueue[i] \in Range(rafQueue')
              ELSE /\ rafQueue[i] \notin Range(rafQueue')
                   /\ i = Len(rafQueue) =>
                        /\ CentredOn(currentTransform', rafQueue[i].id, rafQueue[i].scale)
                        /\ zoomTarget' = currentTransform'
                        /\ transitionActive']_vars
  /\ [][(animationFrame /\ \A i \in 1..Len(rafQueue) :
                             rafQueue[i].fn = "focusGraphNode" /\ ~pos[rafQueue[i].id].finite)
          => UNCHANGED <<currentTransform, zoomTarget, transitionActive>>]_vars
  /\ \A id \in UNION {Range(order) : order \in FocusNodeLists} :
       FocusPending(id) ~> (~pos[id].finite \/ ~FocusPending(id))

\* the roster asked for a focus on A before the simulation placed it: the callback
\* waits and the transform is still the identity initGraph set
C12_Witness ==
  /\ graphReady
  /\ selectedNodeId = "A"
  /\ ~pos["A"].finite
  /\ FocusPending("A")
  /\ currentTransform = zoomIdentity
  /\ ~transitionActive

(***************************************************************************)
(* Properties of the pins and of the cluster anchors.                      *)
(***************************************************************************)
\* C13: after any sequence of drag start / drag / drag end gestures on any nodes and
\* of resizes, in every state of the built graph in which no drag is in progress
\* the root is pinned at the centre (width/2, height/2) of the current viewport
\* size and every other node is unpinned.
C13_RootPinnedOthersFree ==
  (resizeObserved /\ dragging = {}) =>
    /\ pin[root].pinned
    /\ pin[root].finite
    /\ RatMul(pin[root].x, RatOfInt(2)) = RatOfInt(size.width)
    /\ RatMul(pin[root].y, RatOfInt(2)) = RatOfInt(size.height)
    /\ \A id \in Ids \ {root} : ~pin[id].pinned

\* no drag is in progress after a resize to 200 x 200 that followed the placement of
\* the nodes by the simulation: the root is pinned at (100, 100)
C13_Witness ==
  /\ resizeObserved
  /\ dragging = {}
  /\ size = [width |-> 200, height |-> 200]
  /\ initSize # size
  /\ \A id \in NodeIds(nodes) : pos[id].finite
  /\ pin[root] = [pinned |-> TRUE, finite |-> TRUE, x |-> RatOfInt(100), y |-> RatOfInt(100)]
  /\ "A" \in NodeIds(nodes)
  /\ ~pin["A"].pinned

(***************************************************************************)
(* Properties of loading.                                                  *)
(***************************************************************************)
\* C14: if the dataset holds an edge whose from or to is the id of no node, loading
\* rejects the dataset: no adjacency, no cluster ids, no node or link elements are
\* built for it and no partial graph is rendered.
C14_UnknownEndpointRejected ==
  (initDone /\ surface = SurfacePresent /\ HasUnknownEndpoint(nodes, edges)) =>
    /\ errorPanel
    /\ \A id \in Ids : parentByChild[id] = <<>> /\ childrenByParent[id] = <<>>
    /\ \A id \in Ids : clusterId[id] = NULL
    /\ nodeClasses = <<>>
    /\ linkClasses = <<>>

\* the walk of getClusterId from a node meets a node it has visited before
RECURSIVE WalkRevisits(_, _)
WalkRevisits(current, visited) ==
  IF parentByChild[current] = <<>> THEN FALSE
  ELSE LET next == NextParent(depthById, parentByChild[current],
                              DepthOrInf(depthById, current))
       IN IF next \in visited THEN TRUE
          ELSE IF next = root THEN FALSE
          ELSE WalkRevisits(next, visited \cup {next})

\* C15: for every edge list, one whose parent relation holds a cycle included,
\* cluster resolution ends for every node, a node whose upward walk revisits a
\* visited node gets the root as its cluster, and the graph is built for all nodes.
C15_CycleFallsBackToRoot ==
  initDone =>
    /\ graphReady
    /\ ~errorPanel
    /\ \A n \in NodeIds(nodes) :
         /\ clusterId[n] \in NodeIds(nodes)
         /\ (n # root /\ WalkRevisits(n, {n})) => clusterId[n] = root
    /\ DOMAIN nodeClasses = NodeIds(nodes)

\* a cycle between two nodes, both given the root as cluster, beside a direct
\* advisee of the root that is its own cluster
C15_Witness ==
  /\ graphReady
  /\ \E n, m \in NodeIds(nodes) \ {root} :
       /\ n # m
       /\ parentByChild[n] = <<m>>
       /\ parentByChild[m] = <<n>>
       /\ WalkRevisits(n, {n})
       /\ clusterId[n] = root
       /\ clusterId[m] = root
  /\ \E k \in NodeIds(nodes) \ {root} : clusterId[k] = k

\* C16: when the rendering surface is absent at initialization (no #network
\* container, or no svg.graph-canvas in it), graph initialization aborts before it
\* builds any graph state, and the caller shows the graph error panel.
C16_SurfaceAbsentShowsError ==
  (initDone /\ surface # SurfacePresent) =>
    /\ ~graphReady
    /\ \A id \in Ids : parentByChild[id] = <<>> /\ clusterId[id] = NULL
    /\ nodeClasses = <<>>
    /\ rafQueue = <<>>
    /\ errorPanel

(***************************************************************************)
(* Properties of the cluster anchors.                                      *)
(* An anchor lies at (cx + cos(2 pi turn) radius, cy + sin(2 pi turn)      *)
(* radius): two anchors with the same centre lie on opposite sides of it   *)
(* when their turns differ by 1/2, and an offset is scaled by a factor     *)
(* when the turn is kept and the radius is scaled by it.                   *)
(***************************************************************************)
SmallSize == [width |-> 480, height |-> 360]

\* a resize from 960x720 to 480x360
ShrinkStep == size = DefaultSize /\ resize(SmallSize)

AnchorIsCentre(c, sz) ==
  c.set /\ c.cx = RatNorm(sz.width, 2) /\ c.cy = RatNorm(sz.height, 2) /\ c.radius = RatOfInt(0)

OppositeSides(a, b) ==
  /\ a.set /\ b.set /\ a.cx = b.cx /\ a.cy = b.cy
  /\ RatSub(a.turn, b.turn) \in {<<1, 2>>, <<0 - 1, 2>>}

OffsetHalved(before, after) ==
  /\ after.set
  /\ after.turn = before.turn
  /\ after.radius = RatMul(before.radius, <<1, 2>>)
  /\ RatLess(RatOfInt(0), after.radius)

\* twice the influence score the dataset gives a node
TwiceScore(id) == 2 * stats[id].total_descendants + stats[id].direct_advisee_count

\* the anchors are the ones computed from the current viewport alone
AnchorsFromViewport ==
  resizeObserved =>
    /\ clusterCenters = computeClusterCenters(size.width, size.height, directAdvisees, root, stats)
    /\ AnchorIsCentre(clusterCenters[root], size)
    /\ \A id \in Ids \ {root} :
         clusterCenters[id].set =>
           clusterCenters[id].cx = RatNorm(size.width, 2) /\ clusterCenters[id].cy = RatNorm(size.height, 2)

\* C17 as stated: the anchors are a function of the current viewport, recomputed
\* on every resize; the root's anchor is the centre of the new viewport; for the
\* tree R->A, R->B, A->C a resize from 960x720 to 480x360 scales the offsets of A's
\* and of B's anchor by 1/2, and A's and B's anchors are symmetric about the root
\* anchor (equal distance, opposite sides) before and after it.
C17_AnchorsSymmetric ==
  [][ShrinkStep =>
       /\ AnchorIsCentre(clusterCenters'[root], SmallSize)
       /\ OffsetHalved(clusterCenters["A"], clusterCenters'["A"])
       /\ OffsetHalved(clusterCenters["B"], clusterCenters'["B"])
       /\ OppositeSides(clusterCenters["A"], clusterCenters["B"])
       /\ OppositeSides(clusterCenters'["A"], clusterCenters'["B"])
       /\ clusterCenters["A"].radius = clusterCenters["B"].radius
       /\ clusterCenters'["A"].radius = clusterCenters'["B"].radius]_vars

\* C17, amended: the anchors are a function of the current viewport and of the
\* influence scores of the dataset, recomputed on every resize; the root's anchor
\* is the centre of the new viewport; the resize from 960x720 to 480x360 scales the
\* offsets of A's and of B's anchor by 1/2; A's and B's anchors lie on opposite
\* sides of the root anchor before and after it, at equal distance exactly when A
\* and B have the same influence score, the one with the greater score farther out.
C17_AnchorsOppositeAndScaled ==
  /\ []AnchorsFromViewport
  /\ [][ShrinkStep =>
          /\ AnchorIsCentre(clusterCenters'[root], SmallSize)
          /\ OffsetHalved(clusterCenters["A"], clusterCenters'["A"])
          /\ OffsetHalved(clusterCenters["B"], clusterCenters'["B"])
          /\ OppositeSides(clusterCenters["A"], clusterCenters["B"])
          /\ OppositeSides(clusterCenters'["A"], clusterCenters'["B"])
          /\ \A c \in {clusterCenters, clusterCenters'} :
               /\ (TwiceScore("A") = TwiceScore("B")) <=> (c["A"].radius = c["B"].radius)
               /\ (TwiceScore("A") > TwiceScore("B")) <=> RatLess(c["B"].radius, c["A"].radius)]_vars

\* the viewport has shrunk to 480x360 and A, which has an advisee of its own, is
\* anchored farther from the centre than B
C17_Witness ==
  /\ resizeObserved
  /\ size = SmallSize
  /\ TwiceScore("A") > TwiceScore("B")
  /\ clusterCenters["A"].radius = RatNorm(4608, 25)
  /\ clusterCenters["B"].radius = RatNorm(576, 5)
  /\ OppositeSides(clusterCenters["A"], clusterCenters["B"])

(***************************************************************************)
(* Properties of the selection.                                            *)
(***************************************************************************)
\* C18: in every state reached by selections (of ids of the node list or not),
\* background clicks and hovers, the persistent lineage matches the selection:
\* lineageNodes and lineageEdges are the lineage computed from selectedNodeId, and
\* they are empty exactly when nothing is selected.
C18_LineageMatchesSelection ==
  graphReady =>
    IF selectedNodeId = NULL
    THEN lineageNodes = {} /\ lineageEdges = {}
    ELSE /\ lineageNodes = StaticLineage(selectedNodeId).nodes
         /\ lineageEdges = StaticLineage(selectedNodeId).edges
         /\ lineageNodes # {}

====
